---- MODULE Spec2Model ----
(***************************************************************************)
(* Model of the statement pipeline of tools/pdf_to_json.py:                *)
(* load_category_rules, extract_transactions, the conversion loop, the     *)
(* interactive categorisation loop, save_category_rules and the final      *)
(* sort of convert_pdf_to_json.                                            *)
(*                                                                         *)
(* Text is a sequence of code points (67 = "C", 97 = "a", 32 = " ").       *)
(* A Python dict is the sequence of its items in insertion order.          *)
(* A Python Optional is a sequence of length 0 (None) or 1 (the value).    *)
(***************************************************************************)
EXTENDS Integers, Sequences, FiniteSets, TLC

VARIABLES
    pc,                      \* position in main / convert_pdf_to_json
    store,                   \* the rule store file: None (no file) or <<dict>>
    interactive,             \* the -i flag
    rules,                   \* convert_pdf_to_json: rules (as loaded)
    rules_lower,             \* convert_pdf_to_json: rules_lower
    line,                    \* extract_transactions: the line just processed
    lines_read,              \* extract_transactions: number of lines consumed
    raw_transactions,        \* result of extract_transactions
    tx_idx,                  \* conversion loop: index of the next raw transaction
    expenses,                \* convert_pdf_to_json: expenses
    skipped_count,           \* convert_pdf_to_json: skipped_count
    uncategorized_merchants, \* convert_pdf_to_json: keys of uncategorized_merchants
    new_rules,               \* convert_pdf_to_json: new_rules
    um_idx,                  \* prompt loop: index of the next merchant
    first_pass,              \* history: merchant and category given by the first pass
    answers,                 \* history: each prompt's choice and what it returned
    store_writes,            \* history: number of save_category_rules calls
    pdf_exists,              \* main: os.path.exists(args.pdf)
    store_reads,             \* history: number of load_category_rules calls
    card,                    \* convert_pdf_to_json: Optional card
    out_file,                \* the output file: None (not written) or <<expenses>>
    rerun,                   \* second run: Optional expenses of a non-interactive run
    skipped_note,            \* the printed "Note: Skipped n ...": None or <<n>>
    lines_dropped,           \* history: lines dropped for no match or a failed float()
    cl_merchant,             \* classification harness: merchant argument
    cl_rules,                \* classification harness: rules argument
    cl_result,               \* classification harness: Optional result
    cd_pdf,                  \* card harness: the document
    cd_result,               \* card harness: Optional outcome of extract_card_number
    hb_text,                 \* bidi harness: the text segment
    hb_once,                 \* bidi harness: Optional fix_hebrew_text(text)
    hb_twice,                \* bidi harness: Optional fix_hebrew_text applied twice
    es_doc,                  \* backend: Optional stored document of the expense id
    up_pc,                   \* backend: position of each PUT request
    up_req,                  \* backend: update_dict of each PUT request
    up_existing              \* backend: what each request read as existing["_source"]

vars == <<pc, store, interactive, rules, rules_lower, line, lines_read,
          raw_transactions, tx_idx, expenses, skipped_count,
          uncategorized_merchants, new_rules, um_idx, first_pass, answers,
          store_writes, pdf_exists, store_reads, card, out_file, rerun,
          skipped_note, lines_dropped,
          cl_merchant, cl_rules, cl_result, cd_pdf, cd_result,
          hb_text, hb_once, hb_twice, es_doc, up_pc, up_req, up_existing>>

\* Variable groups, for the frame conditions.
run_io == <<pdf_exists, store_reads, card, out_file, rerun, skipped_note,
           lines_dropped>>

cl_vars == <<cl_merchant, cl_rules, cl_result>>

cd_vars == <<cd_pdf, cd_result>>

hb_vars == <<hb_text, hb_once, hb_twice>>

up_vars == <<es_doc, up_pc, up_req, up_existing>>

(***************************************************************************)
(* Bounds                                                                  *)
(***************************************************************************)
MaxRules == 2      \* entries in the rule store at the start of a run
MaxLines == 2      \* text lines of the document
MaxClRules == 2    \* entries of the rule set in the classification harness
MaxSegments == 2   \* segments of the first page's text in the card harness
MaxText == 3       \* characters of a text segment in the bidi harness
MaxRequests == 2   \* concurrent PUT requests for one expense id

None == <<>>
Some(x) == <<x>>

(***************************************************************************)
(* Text                                                                    *)
(***************************************************************************)
\* str.lower() on one code point: A-Z map to a-z, everything else in the
\* alphabets used here (a-z, space, Hebrew letters) is unchanged.
chr_lower(c) == IF c >= 65 /\ c <= 90 THEN c + 32 ELSE c

str_lower(s) == [i \in 1..Len(s) |-> chr_lower(s[i])]

\* Python's `k in m` on strings: k occurs as a contiguous substring of m.
str_in(k, m) ==
    \E i \in 0..(Len(m) - Len(k)) : SubSeq(m, i + 1, i + Len(k)) = k

\* str.isspace() for one code point (space, tab, no-break space).
chr_isspace(c) == c \in {9, 32, 160}

RECURSIVE str_lstrip(_)
str_lstrip(s) ==
    IF s # <<>> /\ chr_isspace(Head(s)) THEN str_lstrip(Tail(s)) ELSE s

RECURSIVE str_rstrip(_)
str_rstrip(s) ==
    IF s # <<>> /\ chr_isspace(s[Len(s)])
    THEN str_rstrip(SubSeq(s, 1, Len(s) - 1)) ELSE s

str_strip(s) == str_rstrip(str_lstrip(s))

str_reverse(s) == [i \in 1..Len(s) |-> s[Len(s) + 1 - i]]

\* A plausible wrong variant: only the Hebrew letters U+05D0..U+05EA count.
fix_hebrew_text_letters(text) ==
    IF text = <<>> THEN text
    ELSE IF ~ \E i \in 1..Len(text) : text[i] >= 1488 /\ text[i] <= 1514
         THEN text
         ELSE str_reverse(text)

fix_hebrew_text(text) ==
    IF text = <<>> THEN text
    ELSE IF ~ \E i \in 1..Len(text) : text[i] >= 1424 /\ text[i] <= 1535
         THEN text
         ELSE str_reverse(text)

(***************************************************************************)
(* Ordered dicts                                                           *)
(***************************************************************************)
dict_keys(d) == [i \in 1..Len(d) |-> d[i].key]

dict_has(d, k) == \E i \in 1..Len(d) : d[i].key = k

dict_get(d, k) == d[CHOOSE i \in 1..Len(d) : d[i].key = k].category

\* d[k] = v: an existing key keeps its position and takes the new value,
\* a new key is appended.
dict_set(d, k, v) ==
    IF dict_has(d, k)
    THEN [i \in 1..Len(d) |->
            IF d[i].key = k THEN [key |-> k, category |-> v] ELSE d[i]]
    ELSE Append(d, [key |-> k, category |-> v])

\* {**a, **b}
RECURSIVE dict_merge(_, _)
dict_merge(a, b) ==
    IF b = <<>> THEN a
    ELSE dict_merge(dict_set(a, Head(b).key, Head(b).category), Tail(b))

\* {k.lower(): v for k, v in rules.items()}
RECURSIVE dict_lower_from(_, _)
dict_lower_from(acc, d) ==
    IF d = <<>> THEN acc
    ELSE dict_lower_from(
            dict_set(acc, str_lower(Head(d).key), Head(d).category), Tail(d))

dict_lower(d) == dict_lower_from(<<>>, d)

(***************************************************************************)
(* categorize_merchant                                                     *)
(***************************************************************************)
RECURSIVE categorize_scan(_, _, _)
categorize_scan(merchant_lower, rs, i) ==
    IF i > Len(rs) THEN "Uncategorized"
    ELSE IF str_in(rs[i].key, merchant_lower) THEN rs[i].category
    ELSE categorize_scan(merchant_lower, rs, i + 1)

\* A plausible wrong variant: the longest matching keyword wins.
categorize_merchant_longest(merchant, rs) ==
    LET ml == str_lower(merchant)
        M  == {i \in 1..Len(rs) : str_in(rs[i].key, ml)}
    IN IF M = {} THEN "Uncategorized"
       ELSE rs[CHOOSE i \in M : \A j \in M :
                 \/ Len(rs[j].key) < Len(rs[i].key)
                 \/ (Len(rs[j].key) = Len(rs[i].key) /\ i <= j)].category

categorize_merchant(merchant, rs) ==
    categorize_scan(str_lower(merchant), rs, 1)

(***************************************************************************)
(* parse_date, get_month_name, get_year                                    *)
(* A raw date is the three two-digit fields of DD/MM/YY; an ISO date is    *)
(* the year, month and day printed by strftime("%Y-%m-%d").                *)
(***************************************************************************)
is_leap(y) == (y % 4 = 0 /\ y % 100 # 0) \/ y % 400 = 0

days_in_month(y, m) ==
    IF m \in {4, 6, 9, 11} THEN 30
    ELSE IF m = 2 THEN (IF is_leap(y) THEN 29 ELSE 28)
    ELSE 31

\* strptime's %y: 00..68 are 2000..2068, 69..99 are 1969..1999.
century_pivot(yy) == IF yy <= 68 THEN 2000 + yy ELSE 1900 + yy

\* A plausible wrong variant: the day is only checked against 1..31.
parse_date_unchecked(date_str) ==
    LET y == century_pivot(date_str.yy)
    IN IF date_str.mm < 1 \/ date_str.mm > 12 \/ date_str.dd < 1 \/ date_str.dd > 31
       THEN None
       ELSE Some([year |-> y, month |-> date_str.mm, day |-> date_str.dd])

parse_date(date_str) ==
    LET y == century_pivot(date_str.yy)
    IN IF date_str.mm < 1 \/ date_str.mm > 12 THEN None
       ELSE IF date_str.dd < 1 \/ date_str.dd > days_in_month(y, date_str.mm)
            THEN None
            ELSE Some([year |-> y, month |-> date_str.mm, day |-> date_str.dd])

month_names ==
    <<"January", "February", "March", "April", "May", "June", "July",
      "August", "September", "October", "November", "December">>

get_month_name(iso) ==
    IF iso.month \in 1..12 /\ iso.day \in 1..days_in_month(iso.year, iso.month)
    THEN month_names[iso.month] ELSE "Unknown"

get_year(iso) == iso.year

(***************************************************************************)
(* float() on a captured amount token.  A token is a sequence of the       *)
(* characters "-", ",", "." and digits, of the shape -?[\d,]+\.?\d*.       *)
(* The value is kept in hundredths (tokens carry at most two decimals).    *)
(***************************************************************************)
digit_chars == <<"0", "1", "2", "3", "4", "5", "6", "7", "8", "9">>

is_digit(c) == \E i \in 1..10 : digit_chars[i] = c

digit_value(c) == (CHOOSE i \in 1..10 : digit_chars[i] = c) - 1

\* .replace(',', '')
strip_commas(tok) == SelectSeq(tok, LAMBDA c : c # ",")

RECURSIVE digits_value(_)
digits_value(ds) ==
    IF ds = <<>> THEN 0
    ELSE digits_value(SubSeq(ds, 1, Len(ds) - 1)) * 10 + digit_value(ds[Len(ds)])

\* float(s): None stands for ValueError (no digit at all: "", "-", ".").
py_float(s) ==
    LET neg   == s # <<>> /\ s[1] = "-"
        body  == IF neg THEN Tail(s) ELSE s
        dots  == {i \in 1..Len(body) : body[i] = "."}
        dot   == IF dots = {} THEN Len(body) + 1 ELSE CHOOSE i \in dots : TRUE
        ip    == SubSeq(body, 1, dot - 1)
        fp    == SubSeq(body, dot + 1, Len(body))
        fp2   == IF Len(fp) = 0 THEN <<"0", "0">>
                 ELSE IF Len(fp) = 1 THEN <<fp[1], "0">> ELSE SubSeq(fp, 1, 2)
        mag   == digits_value(ip) * 100 + digits_value(fp2)
    IN IF ip = <<>> /\ fp = <<>> THEN None
       ELSE Some(IF neg THEN 0 - mag ELSE mag)

(***************************************************************************)
(* extract_transactions, one text line at a time.                          *)
(* A line is given by what the two patterns find in it: whether it holds   *)
(* a header/total marker, and the Optional groups of regular_pattern and   *)
(* of installment_pattern (charge, original, merchant span, date).         *)
(***************************************************************************)
\* A plausible wrong variant: only negative amounts are skipped.
extract_line_zero(l) ==
    IF l.marker THEN None
    ELSE LET match == IF l.regular # None THEN l.regular ELSE l.installment
         IN IF match = None THEN None
            ELSE LET charge_amount == strip_commas(match[1].charge)
                     merchant == fix_hebrew_text(str_strip(match[1].merchant))
                     amount == py_float(charge_amount)
                 IN IF amount = None THEN None
                    ELSE IF amount[1] < 0 THEN None
                    ELSE Some([raw_date |-> match[1].date,
                               merchant |-> merchant,
                               amount   |-> amount[1]])

\* The body of the `for line in lines` loop: the Optional transaction the
\* line appends.
extract_line(l) ==
    IF l.marker THEN None
    ELSE LET match == IF l.regular # None THEN l.regular ELSE l.installment
         IN IF match = None THEN None
            ELSE LET charge_amount == strip_commas(match[1].charge)
                     merchant == fix_hebrew_text(str_strip(match[1].merchant))
                     amount == py_float(charge_amount)
                 IN IF amount = None THEN None
                    ELSE IF amount[1] <= 0 THEN None
                    ELSE Some([raw_date |-> match[1].date,
                               merchant |-> merchant,
                               amount   |-> amount[1]])

\* The line reaches neither transactions.append nor one of the deliberate
\* `continue`s (header or total line, charge <= 0): no pattern matches it,
\* or float() raises ValueError on its charge.
line_dropped(l) ==
    /\ ~ l.marker
    /\ LET match == IF l.regular # None THEN l.regular ELSE l.installment
       IN \/ match = None
          \/ py_float(strip_commas(match[1].charge)) = None

(***************************************************************************)
(* get_available_categories, interactive_categorize_merchant               *)
(***************************************************************************)
get_available_categories ==
    <<"Groceries", "Restaurants", "Food Delivery", "Transportation",
      "Shopping", "Technology", "Entertainment", "Telecommunications",
      "Insurance", "Banking Fees", "Healthcare", "Utilities",
      "General Services", "Other">>

\* A plausible wrong variant: a skip hands the merchant back as the keyword.
interactive_categorize_merchant_skip_keyword(merchant, choice, typed) ==
    LET keyword == str_strip(typed)
    IN IF choice = None
       THEN [category |-> "Uncategorized", keyword |-> Some(merchant)]
       ELSE [category |-> get_available_categories[choice[1]],
             keyword  |-> Some(IF keyword = <<>> THEN merchant ELSE keyword)]

\* One prompt session.  choice is None for 's' and Some(n) for a valid
\* number n; typed is the text entered at the keyword prompt.  Invalid
\* choices print a message and ask again inside the session without
\* touching any state, so a session is given by its last, valid, answer.
interactive_categorize_merchant(merchant, choice, typed) ==
    IF choice = None
    THEN [category |-> "Uncategorized", keyword |-> None]
    ELSE LET keyword == str_strip(typed)
         IN [category |-> get_available_categories[choice[1]],
             keyword  |-> Some(IF keyword = <<>> THEN merchant ELSE keyword)]

\* Python truthiness of the returned keyword: None and "" are false.
keyword_truthy(keyword) == keyword # None /\ keyword[1] # <<>>

(***************************************************************************)
(* The pieces of convert_pdf_to_json                                       *)
(***************************************************************************)
\* load_category_rules: the parsed store, {} when the file is missing.
load_category_rules(file) == IF file = None THEN <<>> ELSE file[1]

\* A plausible wrong variant: a list that records every transaction.
track_uncategorized_each(um, merchant, category, inter) ==
    IF category = "Uncategorized" /\ inter THEN Append(um, merchant) ELSE um

\* if category == "Uncategorized" and interactive:
\*     if tx['merchant'] not in uncategorized_merchants: ...[tx['merchant']] = True
track_uncategorized(um, merchant, category, inter) ==
    IF /\ category = "Uncategorized"
       /\ inter
       /\ ~ \E i \in 1..Len(um) : um[i] = merchant
    THEN Append(um, merchant)
    ELSE um

\* The expense built from a raw transaction with a parsed date.
make_expense(tx, iso_date, category, card_no) ==
    [date     |-> iso_date,
     merchant |-> tx.merchant,
     amount   |-> tx.amount,
     category |-> category,
     month    |-> get_month_name(iso_date),
     year     |-> get_year(iso_date),
     card     |-> card_no]

\* A plausible wrong variant: the merchant is normalised along the way.
update_matching_normalised(es, merchant, category) ==
    [i \in 1..Len(es) |->
        IF es[i].merchant = merchant
        THEN [es[i] EXCEPT !.category = category, !.merchant = str_lower(merchant)]
        ELSE es[i]]

\* for expense in expenses: if expense['merchant'] == merchant: ...
update_matching(es, merchant, category) ==
    [i \in 1..Len(es) |->
        IF es[i].merchant = merchant
        THEN [es[i] EXCEPT !.category = category] ELSE es[i]]

\* The sort key x['date']: ISO strings of equal width compare as numbers.
date_key(iso) == iso.year * 10000 + iso.month * 100 + iso.day

\* A plausible wrong variant: an ascending sort that is reversed afterwards,
\* which puts an element before the elements of equal key.
sort_insert_reversed(sorted, e) ==
    LET before == {i \in 1..Len(sorted) : date_key(sorted[i].date) <= date_key(e.date)}
        pos    == IF before = {} THEN Len(sorted) + 1
                  ELSE CHOOSE i \in before : \A j \in before : i <= j
    IN SubSeq(sorted, 1, pos - 1) \o <<e>> \o SubSeq(sorted, pos, Len(sorted))

\* list.sort(key=..., reverse=True) is stable: an element goes after every
\* element already placed whose key is greater or equal.
sort_insert(sorted, e) ==
    LET before == {i \in 1..Len(sorted) : date_key(sorted[i].date) < date_key(e.date)}
        pos    == IF before = {} THEN Len(sorted) + 1
                  ELSE CHOOSE i \in before : \A j \in before : i <= j
    IN SubSeq(sorted, 1, pos - 1) \o <<e>> \o SubSeq(sorted, pos, Len(sorted))

RECURSIVE sort_from(_, _)
sort_from(sorted, rest) ==
    IF rest = <<>> THEN sorted
    ELSE sort_from(sort_insert(sorted, Head(rest)), Tail(rest))

sort_by_date_desc(es) == sort_from(<<>>, es)

\* The conversion loop of a non-interactive run, as a whole: the expenses
\* appended for the raw transactions txs under the rule set rl.
RECURSIVE convert_all(_, _, _)
convert_all(txs, rl, card_no) ==
    IF txs = <<>> THEN <<>>
    ELSE LET tx       == Head(txs)
             iso_date == parse_date(tx.raw_date)
             category == categorize_merchant(tx.merchant, rl)
         IN (IF iso_date = None THEN <<>>
             ELSE <<make_expense(tx, iso_date[1], category, card_no)>>)
            \o convert_all(Tail(txs), rl, card_no)

\* A plausible wrong variant: the note is printed for a count of zero too.
skip_note_always(n) == Some(n)

\* if skipped_count > 0: print(f"Note: Skipped {skipped_count} ...")
skip_note(n) == IF n > 0 THEN Some(n) ELSE None

\* A plausible wrong variant: only the rules of this run are saved.
updated_rules_new_only(rs, nrs) == nrs

\* updated_rules = {**rules, **new_rules}
updated_rules(rs, nrs) == dict_merge(rs, nrs)

(***************************************************************************)
(* The card number                                                         *)
(*                                                                         *)
(* A page text is a sequence of items: a digit "0".."9", white space " "   *)
(* or "\n", the literal "MASTERCARD" (the reversed Hebrew word of the      *)
(* first alternative of the pattern), the literal "VISA" (the word of the  *)
(* second alternative), or any other character "x".                        *)
(***************************************************************************)
is_space(c) == c \in {" ", "\n"}

\* The alternative of r'(\d{4})\s+M|(\d{4})\s+V' that matches at position i:
\* 1, 2, or 0 when neither does.
card_alternative_at(text, i) ==
    IF /\ i + 5 <= Len(text)
       /\ \A k \in 0..3 : is_digit(text[i + k])
       /\ is_space(text[i + 4])
    THEN LET after == CHOOSE j \in (i + 5)..(Len(text) + 1) :
                         /\ j = Len(text) + 1 \/ ~ is_space(text[j])
                         /\ \A m \in (i + 5)..(j - 1) : is_space(text[m])
         IN IF after > Len(text) THEN 0
            ELSE IF text[after] = "MASTERCARD" THEN 1
            ELSE IF text[after] = "VISA" THEN 2
            ELSE 0
    ELSE 0

\* re.search: the leftmost match, as its two groups (None: did not take part).
card_search(text) ==
    LET hits == {i \in 1..Len(text) : card_alternative_at(text, i) # 0}
    IN IF hits = {} THEN None
       ELSE LET i == CHOOSE h \in hits : \A g \in hits : h <= g
            IN Some([group1 |-> IF card_alternative_at(text, i) = 1
                                THEN Some(SubSeq(text, i, i + 3)) ELSE None,
                     group2 |-> IF card_alternative_at(text, i) = 2
                                THEN Some(SubSeq(text, i, i + 3)) ELSE None])

card_default == <<"0", "0", "0", "0">>

\* extract_card_number.  A document is [pages, text]: the number of pages and
\* what pages[0].extract_text() returns, which for a page without characters
\* is "" or None depending on the pdfplumber release installed.  re.search on
\* None raises TypeError: the outcome is [raised, value].
extract_card_number(pdf) ==
    LET text == IF pdf.pages > 0 THEN pdf.text ELSE Some(<<>>)
    IN IF text = None
       THEN [raised |-> TRUE, value |-> <<>>]
       ELSE LET match == card_search(text[1])
            IN IF match # None
               THEN [raised |-> FALSE,
                     value  |-> IF match[1].group1 # None
                                THEN match[1].group1[1] ELSE match[1].group2[1]]
               ELSE [raised |-> FALSE, value |-> card_default]

(***************************************************************************)
(* Inputs                                                                  *)
(***************************************************************************)
txt_Ca == <<67, 97>>          \* "Ca"
txt_ca == <<99, 97>>          \* "ca"
txt_b == <<98>>               \* "b"
txt_blank == <<32>>           \* " " (a merchant span of whitespace only)

tok_10 == <<"1", "0", ".", "0", "0">>                  \* "10.00"
tok_1260 == <<"1", ",", "2", "6", "0", ".", "0", "0">> \* "1,260.00"
tok_zero == <<"0", ".", "0", "0">>                     \* "0.00"
tok_neg == <<"-", "5", ".", "0", "0">>                 \* "-5.00"
tok_comma == <<",">>                                   \* ","

date_0501 == [dd |-> 5, mm |-> 1, yy |-> 24]    \* "05/01/24"
date_2001 == [dd |-> 20, mm |-> 1, yy |-> 24]   \* "20/01/24"
date_3102 == [dd |-> 31, mm |-> 2, yy |-> 24]   \* "31/02/24"

MerchantSpans == {txt_Ca, txt_b, txt_blank}

Groups(charges, spans, dates) ==
    [charge : charges, original : {tok_10}, merchant : spans, date : dates]

Line(marker, regular, installment) ==
    [marker |-> marker, regular |-> regular, installment |-> installment]

\* The text lines a document is made of.
Lines ==
    \* a single-charge line with a positive charge
    {Line(FALSE, Some(g), None) : g \in Groups({tok_10}, MerchantSpans, {date_0501})}
    \cup {Line(FALSE, Some(g), None) : g \in Groups({tok_10}, {txt_Ca}, {date_2001})}
    \cup {Line(FALSE, Some(g), None) : g \in Groups({tok_10}, {txt_b}, {date_3102})}
    \* a single-charge line whose charge is zero, negative or not a number
    \cup {Line(FALSE, Some(g), None) :
            g \in Groups({tok_zero, tok_neg, tok_comma}, {txt_b}, {date_0501})}
    \* an installment line
    \cup {Line(FALSE, None, Some(g)) :
            g \in Groups({tok_1260, tok_zero, tok_neg, tok_comma}, {txt_b}, {date_0501})}
    \* a line in which both patterns find a match
    \cup {Line(FALSE, Some(g), Some(h)) :
            g \in Groups({tok_10, tok_zero, tok_neg, tok_comma}, {txt_Ca}, {date_2001}),
            h \in Groups({tok_1260}, {txt_b}, {date_0501})}
    \* a header or total line that would otherwise match
    \cup {Line(TRUE, Some(g), None) : g \in Groups({tok_10}, {txt_b}, {date_0501})}
    \* a line that matches neither pattern
    \cup {Line(FALSE, None, None)}

StoreKeys == {txt_Ca, txt_ca, txt_b}

StoreCategories == {"Restaurants", "Shopping"}

RuleSets(keys, categories, n) ==
    {d \in UNION {[1..k -> [key : keys, category : categories]] : k \in 0..n} :
        \A i, j \in 1..Len(d) : d[i].key = d[j].key => i = j}

\* What the user may answer: skip or one of the first two categories, and
\* at the keyword prompt nothing, "Ca" or "b".
Choices == {None, Some(1), Some(2)}

TypedKeywords == {<<>>, txt_Ca, txt_b}

(***************************************************************************)
(* The pipeline                                                            *)
(***************************************************************************)
Idle ==
    /\ rules = <<>>
    /\ rules_lower = <<>>
    /\ line = None
    /\ lines_read = 0
    /\ raw_transactions = <<>>
    /\ tx_idx = 1
    /\ expenses = <<>>
    /\ skipped_count = 0
    /\ uncategorized_merchants = <<>>
    /\ new_rules = <<>>
    /\ um_idx = 1
    /\ first_pass = <<>>
    /\ answers = <<>>
    /\ store_writes = 0

IdleIo ==
    /\ store_reads = 0
    /\ card = None
    /\ out_file = None
    /\ rerun = None
    /\ skipped_note = None
    /\ lines_dropped = 0

IdleClassify ==
    /\ cl_merchant = <<>>
    /\ cl_rules = <<>>
    /\ cl_result = None

IdleCard ==
    /\ cd_pdf = [pages |-> 0, text |-> None]
    /\ cd_result = None

IdleBidi ==
    /\ hb_text = <<>>
    /\ hb_once = None
    /\ hb_twice = None

IdleUpdate ==
    /\ es_doc = None
    /\ up_pc = <<>>
    /\ up_req = <<>>
    /\ up_existing = <<>>

\* The first page of the statement, as extract_card_number sees it.
pdf_master == [pages |-> 1, text |-> Some(<<"9", "3", "3", "4", " ", "MASTERCARD">>)]

pdf_no_text == [pages |-> 1, text |-> None]

pdf_no_pages == [pages |-> 0, text |-> None]

\* The first pages of the pipeline runs; the card harness covers the others.
Headers == {pdf_master, pdf_no_text}

Init ==
    /\ pc = "main"
    /\ pdf_exists \in BOOLEAN
    /\ store \in {None} \cup {Some(d) : d \in RuleSets(StoreKeys, StoreCategories, MaxRules)}
    /\ interactive \in BOOLEAN
    /\ Idle
    /\ IdleIo
    /\ IdleClassify
    /\ IdleCard
    /\ IdleBidi
    /\ IdleUpdate

\* A plausible wrong variant: convert_pdf_to_json is called without the check.
MainNoCheck ==
    /\ pc = "main"
    /\ pc' = "load"
    /\ UNCHANGED <<store, interactive, rules, rules_lower, line, lines_read,
                   raw_transactions, tx_idx, expenses, skipped_count,
                   uncategorized_merchants, new_rules, um_idx, first_pass,
                   answers, store_writes, cl_vars, cd_vars, hb_vars, up_vars, run_io>>

\* main: `if not os.path.exists(args.pdf): print(...); return`, else the call
\* of convert_pdf_to_json.
MainCheck ==
    /\ pc = "main"
    /\ pc' = IF ~ pdf_exists THEN "exit" ELSE "load"
    /\ UNCHANGED <<store, interactive, rules, rules_lower, line, lines_read,
                   raw_transactions, tx_idx, expenses, skipped_count,
                   uncategorized_merchants, new_rules, um_idx, first_pass,
                   answers, store_writes, cl_vars, cd_vars, hb_vars, up_vars, run_io>>

\* rules = load_category_rules(rules_path); rules_lower = {k.lower(): v ...}
LoadRules ==
    /\ pc = "load"
    /\ rules' = load_category_rules(store)
    /\ rules_lower' = dict_lower(rules')
    /\ store_reads' = store_reads + 1
    /\ pc' = "card"
    /\ UNCHANGED <<store, interactive, line, lines_read, raw_transactions, tx_idx,
                   expenses, skipped_count, uncategorized_merchants, new_rules,
                   um_idx, first_pass, answers, store_writes,
                   cl_vars, cd_vars, hb_vars, up_vars,
                   pdf_exists, card, out_file, rerun, skipped_note, lines_dropped>>

\* card = extract_card_number(pdf_path); an exception ends the run.
ExtractCard ==
    /\ pc = "card"
    /\ \E pdf \in Headers :
        LET outcome == extract_card_number(pdf)
        IN IF outcome.raised
           THEN /\ pc' = "raised"
                /\ UNCHANGED card
           ELSE /\ pc' = "extract"
                /\ card' = Some(outcome.value)
    /\ UNCHANGED <<store, interactive, rules, rules_lower, line, lines_read,
                   raw_transactions, tx_idx, expenses, skipped_count,
                   uncategorized_merchants, new_rules, um_idx, first_pass,
                   answers, store_writes, cl_vars, cd_vars, hb_vars, up_vars,
                   pdf_exists, store_reads, out_file, rerun, skipped_note,
                   lines_dropped>>

\* extract_transactions: one iteration of `for line in lines`.
ExtractLine ==
    /\ pc = "extract"
    /\ lines_read < MaxLines
    /\ \E l \in Lines :
        /\ line' = Some(l)
        /\ raw_transactions' =
              IF extract_line(l) = None THEN raw_transactions
              ELSE Append(raw_transactions, extract_line(l)[1])
        /\ lines_dropped' = IF line_dropped(l) THEN lines_dropped + 1
                            ELSE lines_dropped
    /\ lines_read' = lines_read + 1
    /\ UNCHANGED <<pc, store, interactive, rules, rules_lower, tx_idx, expenses,
                   skipped_count, uncategorized_merchants, new_rules, um_idx,
                   first_pass, answers, store_writes,
                   cl_vars, cd_vars, hb_vars, up_vars,
                   pdf_exists, store_reads, card, out_file, rerun, skipped_note>>

\* extract_transactions returns at the end of the last page.
ExtractReturn ==
    /\ pc = "extract"
    /\ pc' = "convert"
    /\ line' = None
    /\ UNCHANGED <<store, interactive, rules, rules_lower, lines_read,
                   raw_transactions, tx_idx, expenses, skipped_count,
                   uncategorized_merchants, new_rules, um_idx, first_pass,
                   answers, store_writes, cl_vars, cd_vars, hb_vars, up_vars, run_io>>

\* One iteration of `for tx in raw_transactions`.
ConvertTx ==
    /\ pc = "convert"
    /\ tx_idx <= Len(raw_transactions)
    /\ LET tx       == raw_transactions[tx_idx]
           iso_date == parse_date(tx.raw_date)
           category == categorize_merchant(tx.merchant, rules_lower)
       IN IF iso_date = None
          THEN /\ skipped_count' = skipped_count + 1
               /\ UNCHANGED <<expenses, uncategorized_merchants, first_pass>>
          ELSE /\ uncategorized_merchants' =
                    track_uncategorized(uncategorized_merchants, tx.merchant,
                                        category, interactive)
               /\ expenses' = Append(expenses, make_expense(tx, iso_date[1], category, card[1]))
               /\ first_pass' = Append(first_pass,
                                       [merchant |-> tx.merchant, category |-> category])
               /\ UNCHANGED skipped_count
    /\ tx_idx' = tx_idx + 1
    /\ UNCHANGED <<pc, store, interactive, rules, rules_lower, line, lines_read,
                   raw_transactions, new_rules, um_idx, answers, store_writes,
                   cl_vars, cd_vars, hb_vars, up_vars, run_io>>

\* The conversion loop ends; `if interactive and uncategorized_merchants`.
ConvertDone ==
    /\ pc = "convert"
    /\ tx_idx > Len(raw_transactions)
    /\ pc' = IF interactive /\ uncategorized_merchants # <<>> THEN "prompt" ELSE "sort"
    /\ UNCHANGED <<store, interactive, rules, rules_lower, line, lines_read,
                   raw_transactions, tx_idx, expenses, skipped_count,
                   uncategorized_merchants, new_rules, um_idx, first_pass,
                   answers, store_writes, cl_vars, cd_vars, hb_vars, up_vars, run_io>>

\* One iteration of `for merchant in uncategorized_merchants`.
Prompt ==
    /\ pc = "prompt"
    /\ um_idx <= Len(uncategorized_merchants)
    /\ \E choice \in Choices, typed \in TypedKeywords :
        LET merchant == uncategorized_merchants[um_idx]
            answer   == interactive_categorize_merchant(merchant, choice, typed)
        IN /\ choice = None => typed = <<>>
           /\ answers' = Append(answers, [merchant |-> merchant,
                                          choice   |-> choice,
                                          category |-> answer.category,
                                          keyword  |-> answer.keyword])
           /\ IF keyword_truthy(answer.keyword)
              THEN /\ new_rules' = dict_set(new_rules, answer.keyword[1], answer.category)
                   /\ rules_lower' = dict_set(rules_lower,
                                              str_lower(answer.keyword[1]),
                                              answer.category)
                   /\ expenses' = update_matching(expenses, merchant, answer.category)
              ELSE UNCHANGED <<new_rules, rules_lower, expenses>>
    /\ um_idx' = um_idx + 1
    /\ UNCHANGED <<pc, store, interactive, rules, line, lines_read,
                   raw_transactions, tx_idx, skipped_count,
                   uncategorized_merchants, first_pass, store_writes,
                   cl_vars, cd_vars, hb_vars, up_vars, run_io>>

\* After the prompt loop: `if new_rules:` save_category_rules(updated_rules).
SaveRules ==
    /\ pc = "prompt"
    /\ um_idx > Len(uncategorized_merchants)
    /\ new_rules # <<>>
    /\ store' = Some(updated_rules(rules, new_rules))
    /\ store_writes' = store_writes + 1
    /\ pc' = "sort"
    /\ UNCHANGED <<interactive, rules, rules_lower, line, lines_read,
                   raw_transactions, tx_idx, expenses, skipped_count,
                   uncategorized_merchants, new_rules, um_idx, first_pass,
                   answers, cl_vars, cd_vars, hb_vars, up_vars, run_io>>

\* A plausible wrong variant: the store is rewritten without `if new_rules`.
NoSaveWrites ==
    /\ pc = "prompt"
    /\ um_idx > Len(uncategorized_merchants)
    /\ new_rules = <<>>
    /\ store' = Some(updated_rules(rules, new_rules))
    /\ store_writes' = store_writes + 1
    /\ pc' = "sort"
    /\ UNCHANGED <<interactive, rules, rules_lower, line, lines_read,
                   raw_transactions, tx_idx, expenses, skipped_count,
                   uncategorized_merchants, new_rules, um_idx, first_pass,
                   answers, cl_vars, cd_vars, hb_vars, up_vars, run_io>>

\* After the prompt loop with no new rule: nothing is saved.
NoSave ==
    /\ pc = "prompt"
    /\ um_idx > Len(uncategorized_merchants)
    /\ new_rules = <<>>
    /\ pc' = "sort"
    /\ UNCHANGED <<store, interactive, rules, rules_lower, line, lines_read,
                   raw_transactions, tx_idx, expenses, skipped_count,
                   uncategorized_merchants, new_rules, um_idx, first_pass,
                   answers, store_writes, cl_vars, cd_vars, hb_vars, up_vars, run_io>>

\* expenses.sort(key=lambda x: x['date'], reverse=True), then
\* `if output_path:` the file is written, `if skipped_count > 0:` the note
\* is printed, and the list is returned.
SortExpenses ==
    /\ pc = "sort"
    /\ expenses' = sort_by_date_desc(expenses)
    /\ \E output_path \in BOOLEAN :
        out_file' = IF output_path THEN Some(expenses') ELSE None
    /\ skipped_note' = skip_note(skipped_count)
    /\ pc' = "done"
    /\ UNCHANGED <<store, interactive, rules, rules_lower, line, lines_read,
                   raw_transactions, tx_idx, skipped_count,
                   uncategorized_merchants, new_rules, um_idx, first_pass,
                   answers, store_writes, cl_vars, cd_vars, hb_vars, up_vars,
                   pdf_exists, store_reads, card, rerun, lines_dropped>>

\* A second, non-interactive, run of convert_pdf_to_json over the same
\* document with the rule store as the first run left it: same card and raw
\* transactions, rules loaded from the store, no prompt, sorted result.
Rerun ==
    /\ pc = "done"
    /\ rerun' = Some(sort_by_date_desc(
                       convert_all(raw_transactions,
                                   dict_lower(load_category_rules(store)),
                                   card[1])))
    /\ pc' = "rerun_done"
    /\ UNCHANGED <<store, interactive, rules, rules_lower, line, lines_read,
                   raw_transactions, tx_idx, expenses, skipped_count,
                   uncategorized_merchants, new_rules, um_idx, first_pass,
                   answers, store_writes, cl_vars, cd_vars, hb_vars, up_vars,
                   pdf_exists, store_reads, card, out_file, skipped_note,
                   lines_dropped>>

Next ==
    \/ MainCheck
    \/ LoadRules
    \/ ExtractCard
    \/ ExtractLine
    \/ ExtractReturn
    \/ ConvertTx
    \/ ConvertDone
    \/ Prompt
    \/ SaveRules
    \/ NoSave
    \/ SortExpenses
    \/ Rerun

Spec == Init /\ [][Next]_vars

(***************************************************************************)
(* Classification harness: categorize_merchant applied to a merchant and   *)
(* an ordered rule set with lowercase keys.                                *)
(***************************************************************************)
ClMerchants ==
    { <<67, 97, 102, 101, 32, 74, 111, 101>>,   \* "Cafe Joe"
      <<67, 65, 70>>,                           \* "CAF"
      <<74, 111, 101>>,                         \* "Joe"
      <<66, 97, 114>>,                          \* "Bar"
      <<>> }                                    \* ""

ClKeys ==
    { <<99, 97, 102, 101>>,                     \* "cafe"
      <<99, 97, 102>>,                          \* "caf"
      <<106, 111, 101>>,                        \* "joe"
      <<>> }                                    \* ""

ClCategories == {"Restaurants", "Food Delivery", "Uncategorized"}

InitClassify ==
    /\ pc = "classify"
    /\ store = None
    /\ interactive = FALSE
    /\ Idle
    /\ pdf_exists = TRUE
    /\ IdleIo
    /\ IdleCard
    /\ IdleBidi
    /\ IdleUpdate
    /\ cl_merchant \in ClMerchants
    /\ cl_rules \in RuleSets(ClKeys, ClCategories, MaxClRules)
    /\ cl_result = None

Classify ==
    /\ pc = "classify"
    /\ cl_result' = Some(categorize_merchant(cl_merchant, cl_rules))
    /\ pc' = "classified"
    /\ UNCHANGED <<store, interactive, rules, rules_lower, line, lines_read,
                   raw_transactions, tx_idx, expenses, skipped_count,
                   uncategorized_merchants, new_rules, um_idx, first_pass,
                   answers, store_writes, cl_merchant, cl_rules,
                   cd_vars, hb_vars, up_vars, run_io>>

NextClassify == Classify

SpecClassify == InitClassify /\ [][NextClassify]_vars

(***************************************************************************)
(* Card harness: extract_card_number applied to a document whose first     *)
(* page text is a concatenation of segments.                               *)
(***************************************************************************)
CardSegments ==
    { <<"9", "3", "3", "4", " ", "MASTERCARD">>,
      <<"1", "2", "3", "4", " ", "VISA">>,
      <<"5", "6", "7", "8", " ", "\n", "VISA">>,   \* two white-space characters
      <<"9", "3", "3", "4", "VISA">>,              \* no white space
      <<"9", "3", " ", "VISA">>,                   \* two digits only
      <<"4", "4", "4", "4", " ", "x">>,            \* no marker
      <<"7">>,                                     \* a digit in front
      <<"\n">> }

RECURSIVE CardTexts(_)
CardTexts(n) ==
    IF n = 0 THEN {<<>>}
    ELSE CardTexts(n - 1) \cup {t \o g : t \in CardTexts(n - 1), g \in CardSegments}

CardPdfs ==
    {pdf_no_pages, pdf_no_text} \cup
    {[pages |-> 1, text |-> Some(t)] : t \in CardTexts(MaxSegments)}

InitCard ==
    /\ pc = "card_call"
    /\ store = None
    /\ interactive = FALSE
    /\ Idle
    /\ pdf_exists = TRUE
    /\ IdleIo
    /\ IdleClassify
    /\ IdleBidi
    /\ IdleUpdate
    /\ cd_pdf \in CardPdfs
    /\ cd_result = None

CardCall ==
    /\ pc = "card_call"
    /\ cd_result' = Some(extract_card_number(cd_pdf))
    /\ pc' = "card_returned"
    /\ UNCHANGED <<store, interactive, rules, rules_lower, line, lines_read,
                   raw_transactions, tx_idx, expenses, skipped_count,
                   uncategorized_merchants, new_rules, um_idx, first_pass,
                   answers, store_writes, cl_vars, cd_pdf, hb_vars, up_vars, run_io>>

NextCard == CardCall

SpecCard == InitCard /\ [][NextCard]_vars

(***************************************************************************)
(* Bidi harness: fix_hebrew_text applied to a text segment, once and twice *)
(***************************************************************************)
\* "a", the code points on both sides of each end of U+0590..U+05FF, and
\* the letters alef and bet.
BidiChars == {97, 1423, 1424, 1488, 1489, 1535, 1536}

BidiTexts == UNION {[1..n -> BidiChars] : n \in 0..MaxText}

InitBidi ==
    /\ pc = "bidi_call"
    /\ store = None
    /\ interactive = FALSE
    /\ Idle
    /\ pdf_exists = TRUE
    /\ IdleIo
    /\ IdleClassify
    /\ IdleCard
    /\ IdleUpdate
    /\ hb_text \in BidiTexts
    /\ hb_once = None
    /\ hb_twice = None

BidiCall ==
    /\ pc = "bidi_call"
    /\ hb_once' = Some(fix_hebrew_text(hb_text))
    /\ hb_twice' = Some(fix_hebrew_text(fix_hebrew_text(hb_text)))
    /\ pc' = "bidi_returned"
    /\ UNCHANGED <<store, interactive, rules, rules_lower, line, lines_read,
                   raw_transactions, tx_idx, expenses, skipped_count,
                   uncategorized_merchants, new_rules, um_idx, first_pass,
                   answers, store_writes, cl_vars, cd_vars, hb_text, up_vars, run_io>>

NextBidi == BidiCall

SpecBidi == InitBidi /\ [][NextBidi]_vars

(***************************************************************************)
(* Backend: PUT /api/expenses/{expense_id}, several requests for one id    *)
(*                                                                         *)
(* A document is a function from field names to values.  The stored        *)
(* document starts with the value 0 in every field, and request r sets the *)
(* value r in the fields it sets.  Each `await` of the handler is a point  *)
(* where the event loop may run another request.                           *)
(***************************************************************************)
Requests == 1..MaxRequests

Fields == {"category", "amount", "merchant"}

stored_source == [f \in Fields |-> 0]

\* expense_update.model_dump(exclude_unset=True) of request r.
UpdateDicts(r) == UNION {[D -> {r}] : D \in SUBSET Fields}

\* updated_data = existing["_source"].copy(); updated_data.update(update_dict)
dict_update(source, update_dict) ==
    [f \in (DOMAIN source) \cup (DOMAIN update_dict) |->
        IF f \in DOMAIN update_dict THEN update_dict[f] ELSE source[f]]

InitUpdate ==
    /\ pc = "serve"
    /\ store = None
    /\ interactive = FALSE
    /\ Idle
    /\ pdf_exists = TRUE
    /\ IdleIo
    /\ IdleClassify
    /\ IdleCard
    /\ IdleBidi
    /\ es_doc \in {None, Some(stored_source)}
    /\ up_pc = [r \in Requests |-> "get"]
    /\ up_req \in {q \in [Requests -> UNION {UpdateDicts(r) : r \in Requests}] :
                     \A r \in Requests : q[r] \in UpdateDicts(r)}
    /\ up_existing = [r \in Requests |-> None]

\* existing = await es_client.client.get(...); NotFoundError becomes a 404.
UpdateGet(r) ==
    /\ pc = "serve"
    /\ up_pc[r] = "get"
    /\ IF es_doc = None
       THEN /\ up_pc' = [up_pc EXCEPT ![r] = "not_found"]
            /\ UNCHANGED up_existing
       ELSE /\ up_existing' = [up_existing EXCEPT ![r] = es_doc]
            /\ up_pc' = [up_pc EXCEPT ![r] = "index"]
    /\ UNCHANGED <<pc, store, interactive, rules, rules_lower, line, lines_read,
                   raw_transactions, tx_idx, expenses, skipped_count,
                   uncategorized_merchants, new_rules, um_idx, first_pass,
                   answers, store_writes, cl_vars, cd_vars, hb_vars, run_io,
                   es_doc, up_req>>

\* The merge, then await es_client.client.index(..., document=updated_data).
UpdateIndex(r) ==
    /\ pc = "serve"
    /\ up_pc[r] = "index"
    /\ es_doc' = Some(dict_update(up_existing[r][1], up_req[r]))
    /\ up_pc' = [up_pc EXCEPT ![r] = "done"]
    /\ UNCHANGED <<pc, store, interactive, rules, rules_lower, line, lines_read,
                   raw_transactions, tx_idx, expenses, skipped_count,
                   uncategorized_merchants, new_rules, um_idx, first_pass,
                   answers, store_writes, cl_vars, cd_vars, hb_vars, run_io,
                   up_req, up_existing>>

NextUpdate == \E r \in Requests : UpdateGet(r) \/ UpdateIndex(r)

SpecUpdate == InitUpdate /\ [][NextUpdate]_vars

(***************************************************************************)
(* Claims                                                                  *)
(***************************************************************************)
\* Indices of the rules whose keyword occurs in the lowercased merchant.
ClMatching ==
    {i \in 1..Len(cl_rules) : str_in(cl_rules[i].key, str_lower(cl_merchant))}

ClFirst == CHOOSE i \in ClMatching : \A j \in ClMatching : i <= j

\* C1 (as stated): categorize_merchant returns the category of the first
\* rule in insertion order whose keyword is a substring of the lowercased
\* merchant, and returns "Uncategorized" exactly when no keyword is a
\* substring.
C1_UncategorizedIffNoMatch ==
    cl_result # None =>
        /\ ClMatching # {} => cl_result[1] = cl_rules[ClFirst].category
        /\ cl_result[1] = "Uncategorized" <=> ClMatching = {}

\* C1 (amended): categorize_merchant returns the category of the first rule
\* in insertion order whose keyword is a substring of the lowercased
\* merchant (first match wins, not longest match) and "Uncategorized" when
\* no keyword is a substring; the result is "Uncategorized" only then,
\* provided no rule of the set maps to "Uncategorized" itself.
C1_FirstMatchWins ==
    cl_result # None =>
        /\ ClMatching # {} => cl_result[1] = cl_rules[ClFirst].category
        /\ ClMatching = {} => cl_result[1] = "Uncategorized"
        /\ (\A i \in 1..Len(cl_rules) : cl_rules[i].category # "Uncategorized")
              => (cl_result[1] = "Uncategorized" <=> ClMatching = {})

\* C1 witness: two rules match, the first is the shorter keyword with a
\* different category, and the first one's category is returned.
C1_Witness ==
    /\ cl_result # None
    /\ \E j \in ClMatching :
          /\ ClFirst < j
          /\ Len(cl_rules[ClFirst].key) < Len(cl_rules[j].key)
          /\ cl_rules[ClFirst].category # cl_rules[j].category
          /\ cl_result[1] = cl_rules[ClFirst].category

\* The category a key had when it first entered the in-memory rule set:
\* the loaded one, else the one of the first answer that registered it.
FirstRegistered(k, lowered) ==
    LET key(a) == IF lowered THEN str_lower(a.keyword[1]) ELSE a.keyword[1]
        J == {j \in 1..Len(answers) :
                keyword_truthy(answers[j].keyword) /\ key(answers[j]) = k}
    IN answers[CHOOSE j \in J : \A h \in J : j <= h].category

\* C2: the category of a keyword that is already in the rule set (loaded
\* from the store or added earlier in the run) is never changed, neither in
\* the in-memory rule set nor in the store that is written.
C2_KeysNeverOverwritten ==
    store_reads > 0 =>
        /\ \A i \in 1..Len(rules_lower) :
              rules_lower[i].category =
                 IF dict_has(dict_lower(rules), rules_lower[i].key)
                 THEN dict_get(dict_lower(rules), rules_lower[i].key)
                 ELSE FirstRegistered(rules_lower[i].key, TRUE)
        /\ store_writes > 0 =>
              \A i \in 1..Len(store[1]) :
                 store[1][i].category =
                    IF dict_has(rules, store[1][i].key)
                    THEN dict_get(rules, store[1][i].key)
                    ELSE FirstRegistered(store[1][i].key, FALSE)

\* Merchants whose classification is observed.
ProbeMerchants == {txt_Ca, txt_b, <<>>, <<98, 67, 97>>}

\* C3: adding a rule during the interactive flow never changes the
\* classification of a merchant that a pre-existing rule already matched.
C3_AdditionKeepsClassification ==
    [][\A m \in ProbeMerchants :
          (pc = "prompt" /\ categorize_merchant(m, rules_lower) # "Uncategorized")
             => categorize_merchant(m, rules_lower')
                   = categorize_merchant(m, rules_lower)]_vars

\* Keys registered by the prompts answered so far.
RegisteredKeys ==
    {answers[j].keyword[1] : j \in {h \in 1..Len(answers) :
                                       keyword_truthy(answers[h].keyword)}}

C5_WrittenOnceAtEnd ==
    /\ store_writes <= 1
    /\ store_writes = 1 =>
          /\ interactive
          /\ pc \in {"sort", "done", "rerun_done"}
          /\ Len(answers) = Len(uncategorized_merchants)
          /\ RegisteredKeys # {}
    /\ pc \in {"sort", "done", "rerun_done"} =>
          (store_writes = 1 <=> (interactive /\ RegisteredKeys # {}))
    /\ (store_writes = 0 /\ store_reads > 0) =>
          load_category_rules(store) = rules

\* C5 witness: a run with two prompts, one skipped and one answered, ended
\* with the store written once.
C5_Witness ==
    /\ pc = "done"
    /\ store_writes = 1
    /\ Len(answers) = 2
    /\ \E j \in 1..2 : answers[j].choice = None

\* Merchants of emitted expenses that the first pass left uncategorized.
FirstPassUncategorized ==
    {first_pass[i].merchant : i \in {h \in 1..Len(first_pass) :
                                        first_pass[h].category = "Uncategorized"}}

\* C6: prompts are shown only in interactive mode, each for a merchant the
\* first pass left "Uncategorized", no merchant twice, and once the prompt
\* loop is over their number is the number of distinct such merchants.
C6_OncePerUniqueMerchant ==
    /\ \A i, j \in 1..Len(answers) :
          answers[i].merchant = answers[j].merchant => i = j
    /\ \A i \in 1..Len(answers) : answers[i].merchant \in FirstPassUncategorized
    /\ ~ interactive => answers = <<>>
    /\ (interactive /\ pc \in {"sort", "done", "rerun_done"}) =>
          Len(answers) = Cardinality(FirstPassUncategorized)

\* C6 witness: an interactive run in which two transactions of one
\* uncategorized merchant led to a single prompt.
C6_Witness ==
    /\ pc = "done"
    /\ interactive
    /\ Len(first_pass) = 2
    /\ first_pass[1] = first_pass[2]
    /\ first_pass[1].category = "Uncategorized"
    /\ Len(answers) = 1

\* C7: when the user selects a category for a prompted merchant, every
\* expense of that merchant has that category afterwards, and no expense of
\* another merchant has its category changed by the selection.
C7_SelectionUpdatesAll ==
    [][(pc = "prompt" /\ Len(answers') = Len(answers) + 1
          /\ answers'[Len(answers')].choice # None) =>
         LET a == answers'[Len(answers')]
         IN /\ Len(expenses') = Len(expenses)
            /\ \A i \in 1..Len(expenses) :
                  IF expenses[i].merchant = a.merchant
                  THEN expenses'[i] = [expenses[i] EXCEPT !.category = a.category]
                  ELSE expenses'[i] = expenses[i]]_vars

\* C8: when the user skips a prompted merchant, the skip changes neither
\* the in-memory rule set, nor the rules to be persisted, nor any expense,
\* and every expense of that merchant is "Uncategorized" to the end of the
\* run.
C8_SkipKeepsUncategorized ==
    /\ [](\A j \in 1..Len(answers) :
            answers[j].choice = None =>
               \A i \in 1..Len(expenses) :
                  expenses[i].merchant = answers[j].merchant
                     => expenses[i].category = "Uncategorized")
    /\ [][(Len(answers') = Len(answers) + 1
             /\ answers'[Len(answers')].choice = None) =>
            /\ rules_lower' = rules_lower
            /\ new_rules' = new_rules
            /\ expenses' = expenses
            /\ store' = store]_vars

\* C8 witness: a finished run in which one merchant was skipped and another
\* was given a category, the skipped one's expense still "Uncategorized".
C8_Witness ==
    /\ pc = "done"
    /\ Len(answers) = 2
    /\ \E j, h \in 1..2 :
          /\ answers[j].choice = None
          /\ answers[h].choice # None
          /\ keyword_truthy(answers[h].keyword)
          /\ \E i \in 1..Len(expenses) :
                /\ expenses[i].merchant = answers[j].merchant
                /\ expenses[i].category = "Uncategorized"

\* The groups of the pattern that matched first, as an Optional.
FirstMatch(l) == IF l.regular # None THEN l.regular ELSE l.installment

\* The captured charge of the line parses to zero or to a negative number.
NonPositiveCharge(l) ==
    /\ ~ l.marker
    /\ FirstMatch(l) # None
    /\ py_float(strip_commas(FirstMatch(l)[1].charge)) # None
    /\ py_float(strip_commas(FirstMatch(l)[1].charge))[1] <= 0

\* C9: every raw transaction and every expense has amount > 0, and a line
\* whose captured charge parses to zero or less adds no transaction, also
\* when the other pattern would match it with a positive charge.
C9_AmountPositive ==
    /\ [](/\ \A i \in 1..Len(raw_transactions) : raw_transactions[i].amount > 0
          /\ \A i \in 1..Len(expenses) : expenses[i].amount > 0)
    /\ [][(line' # line /\ line' # None /\ NonPositiveCharge(line'[1]))
             => raw_transactions' = raw_transactions]_vars

\* C9 witness: the single-charge pattern matched with a charge of zero or
\* less on a line the installment pattern matches with a positive charge,
\* and the line gave no transaction.
C9_Witness ==
    /\ line # None
    /\ NonPositiveCharge(line[1])
    /\ line[1].regular # None
    /\ line[1].installment # None
    /\ py_float(strip_commas(line[1].installment[1].charge))[1] > 0
    /\ lines_read = 1
    /\ raw_transactions = <<>>

\* The DD/MM/YY fields name a day of the calendar.
ValidRawDate(d) ==
    /\ d.mm \in 1..12
    /\ d.dd >= 1
    /\ d.dd <= days_in_month(century_pivot(d.yy), d.mm)

\* An ISO date of four-digit year that names a day of the calendar.
ValidIsoDate(iso) ==
    /\ iso.year \in 1000..9999
    /\ iso.month \in 1..12
    /\ iso.day >= 1
    /\ iso.day <= days_in_month(iso.year, iso.month)

\* Raw transactions the conversion loop has handled.
Handled == IF pc = "convert" THEN tx_idx - 1 ELSE Len(raw_transactions)

\* C10: every raw transaction handled by the conversion loop is either
\* emitted as one expense with a valid calendar date or dropped with the
\* skip counter incremented: expenses + skipped = handled, the skipped are
\* those whose raw date names no day, and no expense has an invalid date.
C10_EmittedOrSkipped ==
    pc \in {"convert", "prompt", "sort", "done", "rerun_done"} =>
        /\ Len(expenses) + skipped_count = Handled
        /\ skipped_count =
              Cardinality({i \in 1..Handled :
                             ~ ValidRawDate(raw_transactions[i].raw_date)})
        /\ \A i \in 1..Len(expenses) : ValidIsoDate(expenses[i].date)
        /\ \A i \in 1..Handled :
              ValidRawDate(raw_transactions[i].raw_date) =>
                 \E j \in 1..Len(expenses) :
                    /\ expenses[j].merchant = raw_transactions[i].merchant
                    /\ expenses[j].amount = raw_transactions[i].amount
                    /\ expenses[j].date.day = raw_transactions[i].raw_date.dd
                    /\ expenses[j].date.month = raw_transactions[i].raw_date.mm

\* C10 witness: a finished run that emitted one transaction and dropped
\* another, whose raw date was 31/02/24.
C10_Witness ==
    /\ pc = "done"
    /\ Len(raw_transactions) = 2
    /\ raw_transactions[2].raw_date = date_3102
    /\ Len(expenses) = 1
    /\ skipped_count = 1

\* The positions of the page text where four digits, white space and a card
\* marker follow each other.
MarkerMatches(text) ==
    {i \in 1..Len(text) :
        \E j \in (i + 5)..Len(text) :
            /\ \A k \in i..(i + 3) : is_digit(text[k])
            /\ \A k \in (i + 4)..(j - 1) : is_space(text[k])
            /\ text[j] \in {"MASTERCARD", "VISA"}}

\* The card number the extractor is documented to return for a document.
DocumentedCard(pdf) ==
    IF pdf.pages = 0 \/ pdf.text = None \/ MarkerMatches(pdf.text[1]) = {}
    THEN card_default
    ELSE LET i == CHOOSE h \in MarkerMatches(pdf.text[1]) :
                     \A g \in MarkerMatches(pdf.text[1]) : h <= g
         IN SubSeq(pdf.text[1], i, i + 3)

\* C11: extract_card_number never raises and always returns exactly four
\* digits: those of the first marker match in the first page's text, and
\* "0000" when the document has no pages, when the first page has no
\* extractable text, or when no marker matches.
C11_CardNeverRaises ==
    pc = "card_returned" =>
        /\ ~ cd_result[1].raised
        /\ Len(cd_result[1].value) = 4
        /\ \A k \in 1..4 : is_digit(cd_result[1].value[k])
        /\ cd_result[1].value = DocumentedCard(cd_pdf)

\* C11, the part that holds: whenever the call returns, it returns the
\* documented four digits.
C11_ReturnedCardIsDocumented ==
    (pc = "card_returned" /\ ~ cd_result[1].raised) =>
        /\ Len(cd_result[1].value) = 4
        /\ \A k \in 1..4 : is_digit(cd_result[1].value[k])
        /\ cd_result[1].value = DocumentedCard(cd_pdf)

\* The rearrangements of the positions 1..n.
Rearrangements(n) ==
    {p \in [1..n -> 1..n] : \A i, j \in 1..n : p[i] = p[j] => i = j}

\* `after` holds the elements of `before` by descending date, and elements
\* of equal date in the order they have in `before`.
StableDescending(before, after) ==
    /\ Len(after) = Len(before)
    /\ \E p \in Rearrangements(Len(before)) :
          /\ \A i \in 1..Len(after) : after[i] = before[p[i]]
          /\ \A i, j \in 1..Len(after) :
                i < j =>
                   \/ date_key(after[i].date) > date_key(after[j].date)
                   \/ /\ date_key(after[i].date) = date_key(after[j].date)
                      /\ p[i] < p[j]

\* C12: the returned sequence is a permutation of the emitted expenses,
\* ordered by date descending; expenses of equal date keep their extraction
\* order.  The file that is written holds the same sequence.
C12_SortedStablePermutation ==
    [][pc = "sort" =>
          /\ StableDescending(expenses, expenses')
          /\ out_file' \in {None, Some(expenses')}]_vars

\* C12 witness: two expenses of one date and different merchants were
\* returned in their extraction order and written to the file.
C12_Witness ==
    /\ pc = "done"
    /\ Len(expenses) = 2
    /\ expenses[1].date = expenses[2].date
    /\ expenses[1].merchant # expenses[2].merchant
    /\ expenses[1].merchant = first_pass[1].merchant
    /\ out_file = Some(expenses)

InHebrewBlock(c) == c >= 1424 /\ c <= 1535

C15_MissingDocumentNoEffects ==
    /\ [](~ pdf_exists =>
             /\ pc \in {"main", "exit"}
             /\ store_reads = 0
             /\ store_writes = 0
             /\ answers = <<>>
             /\ out_file = None
             /\ skipped_note = None)
    /\ [][~ pdf_exists => store' = store]_vars

\* C15 witness: the entry point has returned for a missing document while
\* a rule store exists.
C15_Witness ==
    /\ pc = "exit"
    /\ ~ pdf_exists
    /\ store # None
    /\ Len(store[1]) = 2

\* The fields of an Expense other than its category.
Fixed(e) ==
    [date |-> e.date, merchant |-> e.merchant, amount |-> e.amount,
     month |-> e.month, year |-> e.year, card |-> e.card]

\* C16: once an Expense is appended, its date, merchant, amount, month, year
\* and card never change, and no Expense is added or removed after the
\* conversion loop: the interactive flow changes categories only, and the
\* final sort changes the order only.
C16_ExpensesFixedOnceAppended ==
    [][/\ pc = "convert" =>
             /\ Len(expenses') \in {Len(expenses), Len(expenses) + 1}
             /\ SubSeq(expenses', 1, Len(expenses)) = expenses
       /\ pc = "prompt" =>
             /\ Len(expenses') = Len(expenses)
             /\ \A i \in 1..Len(expenses) : Fixed(expenses'[i]) = Fixed(expenses[i])
       /\ pc = "sort" =>
             /\ Len(expenses') = Len(expenses)
             /\ \E p \in Rearrangements(Len(expenses)) :
                   \A i \in 1..Len(expenses) : expenses'[i] = expenses[p[i]]
       /\ pc \notin {"convert", "prompt", "sort"} => expenses' = expenses]_vars

\* C16 witness: a finished run whose two expenses were reordered by the sort
\* and one of which got its category from the user.
C16_Witness ==
    /\ pc = "done"
    /\ Len(expenses) = 2
    /\ Len(answers) > 0
    /\ expenses[1].merchant = first_pass[2].merchant
    /\ expenses[1].date # expenses[2].date
    /\ expenses[1].category # first_pass[2].category
    /\ expenses[1].card = <<"9", "3", "3", "4">>

\* The category of the first entry of the rule store, in its own order,
\* whose lowercased key is a substring of the lowercased merchant.
FirstKeyOfStore(merchant, rs) ==
    LET hits == {i \in 1..Len(rs) : str_in(str_lower(rs[i].key), str_lower(merchant))}
    IN IF hits = {} THEN "Uncategorized"
       ELSE rs[CHOOSE i \in hits : \A j \in hits : i <= j].category

\* C17: for every rule store, also one whose keys differ in letter case
\* only, the pipeline classifies a merchant to the category of the first key
\* in the store's order whose lowercased form is a substring of the
\* lowercased merchant: lowercasing the keys beforehand does not change
\* which entry wins.
C17_LowercasingKeepsWinner ==
    \A i \in 1..Len(first_pass) :
        first_pass[i].category = FirstKeyOfStore(first_pass[i].merchant, rules)

\* C18: after an interactive run that wrote the rule store, a second,
\* non-interactive, run over the same raw transactions with the written
\* store gives every Expense the category it has in the interactive run's
\* final output, whatever was selected, typed as keyword or skipped.
C18_RerunReproducesCategories ==
    (pc = "rerun_done" /\ interactive /\ store_writes = 1) =>
        /\ Len(rerun[1]) = Len(expenses)
        /\ \A i \in 1..Len(expenses) :
              /\ Fixed(rerun[1][i]) = Fixed(expenses[i])
              /\ rerun[1][i].category = expenses[i].category

\* C19: update_expense changes only the fields set in the request, under
\* every interleaving: when concurrent PUT requests for one id that set
\* disjoint fields have all been served, the stored document holds the
\* update of each of them, and its other fields are as they were.
C19_ConcurrentUpdatesKept ==
    (/\ pc = "serve"
     /\ \A r \in Requests : up_pc[r] = "done"
     /\ \A r, q \in Requests :
           r # q => (DOMAIN up_req[r]) \cap (DOMAIN up_req[q]) = {}) =>
        \A f \in Fields :
            es_doc[1][f] =
               IF \E r \in Requests : f \in DOMAIN up_req[r]
               THEN up_req[CHOOSE r \in Requests : f \in DOMAIN up_req[r]][f]
               ELSE stored_source[f]

\* C19, for one request at a time: a request served with no other request
\* between its read and its write changes exactly the fields it sets.
C19_SerialUpdateKeepsOtherFields ==
    [][\A r \in Requests :
          (pc = "serve" /\ up_pc[r] = "index" /\ up_pc'[r] = "done"
             /\ up_existing[r] = es_doc) =>
               \A f \in Fields :
                  es_doc'[1][f] = IF f \in DOMAIN up_req[r]
                                  THEN up_req[r][f] ELSE es_doc[1][f]]_vars

====
